---- MODULE Spec2Model ----
(***************************************************************************)
(* A model of the Monte Carlo season predictor of app.py.                  *)
(*                                                                         *)
(* The module-level arrays goals, assists, PTS, REB, AST are loaded once.  *)
(* Each Dash callback (update_salah_output, update_lebron_output) runs in  *)
(* a server thread: it draws one NUM_SIMULATIONS x num_games matrix per    *)
(* statistic, sums every row, summarises the arrays with create_histogram  *)
(* and returns.  Numbers that numpy holds as floats are kept exact as      *)
(* fractions [n |-> numerator, d |-> denominator]; d = 0 is NaN (0/0).     *)
(***************************************************************************)
EXTENDS Integers, Sequences, FiniteSets, TLC

\* NUM_SIMULATIONS is 10_000 in app.py; the model runs the same code with
\* a small number of simulated seasons.
NUM_SIMULATIONS == 2

\* The largest num_games a request carries (the function accepts any int).
MaxGames == 2

\* The number of simulated seasons of the summary specification.
SummarySimulations == 21

Threads == {"t1", "t2"}

VARIABLES
    goals, assists,          \* Salah's per-game series (app.py:17-18)
    PTS, REB, AST,           \* LeBron's per-game series (app.py:23-25)
    callback,                \* per thread: the callback it runs
    pc,                      \* per thread: position in the callback
    num_games,               \* per thread: the callback's argument
    goals_sim, assists_sim,  \* per thread: locals of monte_carlo_simulation_salah
    simulated_pts, simulated_ast, simulated_reb,  \* locals of ..._lebron
    draws,                   \* per thread: completed choice() calls of the request
    prior,                   \* per thread: requests completed before it was issued
    response                 \* per thread: what the callback returned or raised

vars == <<goals, assists, PTS, REB, AST, callback, pc, num_games, goals_sim, assists_sim,
          simulated_pts, simulated_ast, simulated_reb, draws, prior, response>>

series == <<goals, assists, PTS, REB, AST>>
salah_locals == <<goals_sim, assists_sim>>
lebron_locals == <<simulated_pts, simulated_ast, simulated_reb>>

-----------------------------------------------------------------------------
(* Data loading *)

\* What pd.read_csv and the season filter can leave in the arrays: the two
\* series of a subject are columns of one frame, so they have one length;
\* a season filter that matches no row leaves both empty.
Datasets ==
    { [goals |-> <<0, 1>>,    assists |-> <<1, 0>>,
       PTS   |-> <<2, 3>>,    AST     |-> <<1, 1>>,  REB |-> <<4, 4>>],
      [goals |-> <<1, 0, 1>>, assists |-> <<0, 1, 1>>,
       PTS   |-> <<5>>,       AST     |-> <<2>>,     REB |-> <<3>>],
      [goals |-> <<>>,        assists |-> <<>>,
       PTS   |-> <<4, 4>>,    AST     |-> <<0, 2>>,  REB |-> <<3, 1>>],
      [goals |-> <<1, 1>>,    assists |-> <<0, 2>>,
       PTS   |-> <<>>,        AST     |-> <<>>,      REB |-> <<>>] }

NoResponse == [kind |-> "none"]

-----------------------------------------------------------------------------
(* numpy helpers *)

RECURSIVE SumSeq(_)
\* ndarray.sum over one row
SumSeq(row) == IF row = <<>> THEN 0 ELSE Head(row) + SumSeq(Tail(row))

\* One row of choice(a, size): the values of a at the drawn indices.
Take(a, idx) == [g \in 1..Len(idx) |-> a[idx[g]]]

\* A variant of RowSums that adds one game too many to every season.
RowSumsExtraGame(a, M) ==
    [s \in 1..Len(M) |-> SumSeq(Take(a, M[s])) + (IF a = <<>> THEN 0 ELSE a[1])]

\* choice(a, size=(S, G)).sum(axis=1) for the drawn index matrix M
RowSums(a, M) == [s \in 1..Len(M) |-> SumSeq(Take(a, M[s]))]

\* A variant of IndexMatrices with the two dimensions of size swapped.
IndexMatricesSwapped(S, G, N) == [1..G -> [1..S -> 1..N]]

\* The index matrices choice may draw: S rows of G indices into a, with
\* replacement.  G = 0 gives S empty rows.
IndexMatrices(S, G, N) == [1..S -> [1..G -> 1..N]]

\* choice raises ValueError for a negative dimension, and for an empty a
\* unless no samples are taken.
ChoiceFails(a, S, G) == G < 0 \/ (Len(a) = 0 /\ S * G > 0)

\* A variant of SourceAfterChoice that permutes the array in place.
SourceRotated(a) == IF a = <<>> THEN a ELSE Tail(a) \o <<Head(a)>>

\* choice reads a and leaves it as it was.
SourceAfterChoice(a) == a

\* x / num_games on a float array: true division, 0/0 is nan.
Divide(x, g) == [n |-> x, d |-> g]

\* A variant of Mean that divides by one element too few.
MeanOffByOne(nums, den) == [n |-> SumSeq(nums), d |-> (Len(nums) - 1) * den]

\* ndarray.mean: the arithmetic mean of nums/den
Mean(nums, den) == [n |-> SumSeq(nums), d |-> Len(nums) * den]

\* np.percentile(data, q), default method "linear": the value at the
\* virtual index q/100 * (n - 1) of the sorted data, interpolated linearly
\* between the two neighbouring order statistics.
Percentile(nums, den, q) ==
    LET sorted == SortSeq(nums, LAMBDA x, y : x < y)
        n      == Len(nums)
        pos    == q * (n - 1)
        i      == pos \div 100
        f      == pos % 100
        lo     == sorted[i + 1]
        hi     == sorted[IF i + 2 <= n THEN i + 2 ELSE n]
    IN  [n |-> 100 * lo + f * (hi - lo), d |-> 100 * den]

\* f"{x:.1f}" and f"{x:.2f}": x to the nearest multiple of 1/scale; nan
\* prints as nan.
RoundTo(x, scale) ==
    IF x.d = 0 THEN x
    ELSE [n |-> (2 * x.n * scale + x.d) \div (2 * x.d), d |-> scale]

\* create_histogram: the figure's data and the numbers of its title.
create_histogram(nums, den) ==
    [x    |-> [i \in 1..Len(nums) |-> Divide(nums[i], den)],
     mean |-> RoundTo(Mean(nums, den), 10),
     p5   |-> Percentile(nums, den, 5),
     p95  |-> Percentile(nums, den, 95)]

\* The numerators of an array of fractions with one denominator
Nums(data) == [i \in 1..Len(data) |-> data[i].n]

-----------------------------------------------------------------------------
(* The callbacks, one step per numpy call *)

\* The state when the module has been imported: the series loaded, no
\* request yet.
Loaded(datasets) ==
    /\ \E d \in datasets :
          /\ goals = d.goals /\ assists = d.assists
          /\ PTS = d.PTS /\ REB = d.REB /\ AST = d.AST
    /\ callback = [t \in Threads |-> "none"]
    /\ pc = [t \in Threads |-> "idle"]
    /\ num_games = [t \in Threads |-> 0]
    /\ goals_sim = [t \in Threads |-> <<>>]
    /\ assists_sim = [t \in Threads |-> <<>>]
    /\ simulated_pts = [t \in Threads |-> <<>>]
    /\ simulated_ast = [t \in Threads |-> <<>>]
    /\ simulated_reb = [t \in Threads |-> <<>>]
    /\ draws = [t \in Threads |-> 0]
    /\ prior = [t \in Threads |-> {}]
    /\ response = [t \in Threads |-> NoResponse]

Init == Loaded(Datasets)

Ended(t) == pc[t] \in {"done", "failed"}

\* The first statement of each callback
FirstStep(cb) == IF cb = "update_salah_output" THEN "salah_goals" ELSE "lebron_pts"

\* Dash invokes a callback with the slider's value: a thread that is free
\* starts running it with fresh locals.
Request(t, cb, g) ==
    /\ pc[t] = "idle" \/ Ended(t)
    /\ callback' = [callback EXCEPT ![t] = cb]
    /\ pc' = [pc EXCEPT ![t] = FirstStep(cb)]
    /\ num_games' = [num_games EXCEPT ![t] = g]
    /\ goals_sim' = [goals_sim EXCEPT ![t] = <<>>]
    /\ assists_sim' = [assists_sim EXCEPT ![t] = <<>>]
    /\ simulated_pts' = [simulated_pts EXCEPT ![t] = <<>>]
    /\ simulated_ast' = [simulated_ast EXCEPT ![t] = <<>>]
    /\ simulated_reb' = [simulated_reb EXCEPT ![t] = <<>>]
    /\ draws' = [draws EXCEPT ![t] = 0]
    /\ prior' = [u \in Threads |->
                    IF u = t THEN {v \in Threads \ {t} : pc[v] = "done"}
                    ELSE prior[u] \ {t}]
    /\ response' = [response EXCEPT ![t] = NoResponse]
    /\ UNCHANGED series

\* An exception leaves the callback: Dash answers the request with an error.
Raise(t, error) ==
    /\ pc' = [pc EXCEPT ![t] = "failed"]
    /\ response' = [response EXCEPT ![t] = [kind |-> "error", error |-> error]]

\* goals_sim = rng.choice(goals, size=size).sum(axis=1)
salah_goals(t) ==
    /\ pc[t] = "salah_goals"
    /\ IF ChoiceFails(goals, NUM_SIMULATIONS, num_games[t])
       THEN /\ Raise(t, "ValueError")
            /\ UNCHANGED <<goals_sim, draws>>
       ELSE /\ \E M \in IndexMatrices(NUM_SIMULATIONS, num_games[t], Len(goals)) :
                  goals_sim' = [goals_sim EXCEPT ![t] = RowSums(goals, M)]
            /\ draws' = [draws EXCEPT ![t] = @ + 1]
            /\ pc' = [pc EXCEPT ![t] = "salah_assists"]
            /\ UNCHANGED response
    /\ goals' = SourceAfterChoice(goals)
    /\ UNCHANGED <<assists, PTS, REB, AST, num_games, assists_sim, lebron_locals, prior, callback>>

\* assists_sim = rng.choice(assists, size=size).sum(axis=1)
salah_assists(t) ==
    /\ pc[t] = "salah_assists"
    /\ IF ChoiceFails(assists, NUM_SIMULATIONS, num_games[t])
       THEN /\ Raise(t, "ValueError")
            /\ UNCHANGED <<assists_sim, draws>>
       ELSE /\ \E M \in IndexMatrices(NUM_SIMULATIONS, num_games[t], Len(assists)) :
                  assists_sim' = [assists_sim EXCEPT ![t] = RowSums(assists, M)]
            /\ draws' = [draws EXCEPT ![t] = @ + 1]
            /\ pc' = [pc EXCEPT ![t] = "salah_output"]
            /\ UNCHANGED response
    /\ assists' = SourceAfterChoice(assists)
    /\ UNCHANGED <<goals, PTS, REB, AST, num_games, goals_sim, lebron_locals, prior, callback>>

\* The rest of update_salah_output: the two figures, the mean and the 5th
\* and 95th percentile of the goals, and the summary text.
salah_output(t) ==
    /\ pc[t] = "salah_output"
    /\ response' = [response EXCEPT ![t] =
          [kind         |-> "ok",
           goals_fig    |-> create_histogram(goals_sim[t], 1),
           assists_fig  |-> create_histogram(assists_sim[t], 1),
           goals_mean   |-> Mean(goals_sim[t], 1),
           goals_5th    |-> Percentile(goals_sim[t], 1, 5),
           goals_95th   |-> Percentile(goals_sim[t], 1, 95),
           summary_text |-> [num_games |-> num_games[t],
                             low  |-> Percentile(goals_sim[t], 1, 5),
                             high |-> Percentile(goals_sim[t], 1, 95),
                             mean |-> RoundTo(Mean(goals_sim[t], 1), 100)]]]
    /\ pc' = [pc EXCEPT ![t] = "done"]
    /\ UNCHANGED <<series, num_games, salah_locals, lebron_locals, draws, prior, callback>>

\* A variant of RowAverages that returns the season totals.
RowAveragesTotals(a, M, g) == [s \in 1..Len(M) |-> Divide(RowSums(a, M)[s], 1)]

\* np.random.choice(a, size=size, replace=True).sum(axis=1) / num_games for
\* the drawn index matrix M
RowAverages(a, M, g) == [s \in 1..Len(M) |-> Divide(RowSums(a, M)[s], g)]

\* simulated_pts = np.random.choice(PTS, ...).sum(axis=1) / num_games
lebron_pts(t) ==
    /\ pc[t] = "lebron_pts"
    /\ IF ChoiceFails(PTS, NUM_SIMULATIONS, num_games[t])
       THEN /\ Raise(t, "ValueError")
            /\ UNCHANGED <<simulated_pts, draws>>
       ELSE /\ \E M \in IndexMatrices(NUM_SIMULATIONS, num_games[t], Len(PTS)) :
                  simulated_pts' =
                      [simulated_pts EXCEPT ![t] = RowAverages(PTS, M, num_games[t])]
            /\ draws' = [draws EXCEPT ![t] = @ + 1]
            /\ pc' = [pc EXCEPT ![t] = "lebron_ast"]
            /\ UNCHANGED response
    /\ PTS' = SourceAfterChoice(PTS)
    /\ UNCHANGED <<goals, assists, REB, AST, num_games, salah_locals,
                   simulated_ast, simulated_reb, prior, callback>>

\* simulated_ast = np.random.choice(AST, ...).sum(axis=1) / num_games
lebron_ast(t) ==
    /\ pc[t] = "lebron_ast"
    /\ IF ChoiceFails(AST, NUM_SIMULATIONS, num_games[t])
       THEN /\ Raise(t, "ValueError")
            /\ UNCHANGED <<simulated_ast, draws>>
       ELSE /\ \E M \in IndexMatrices(NUM_SIMULATIONS, num_games[t], Len(AST)) :
                  simulated_ast' =
                      [simulated_ast EXCEPT ![t] = RowAverages(AST, M, num_games[t])]
            /\ draws' = [draws EXCEPT ![t] = @ + 1]
            /\ pc' = [pc EXCEPT ![t] = "lebron_reb"]
            /\ UNCHANGED response
    /\ AST' = SourceAfterChoice(AST)
    /\ UNCHANGED <<goals, assists, PTS, REB, num_games, salah_locals,
                   simulated_pts, simulated_reb, prior, callback>>

\* simulated_reb = np.random.choice(REB, ...).sum(axis=1) / num_games
lebron_reb(t) ==
    /\ pc[t] = "lebron_reb"
    /\ IF ChoiceFails(REB, NUM_SIMULATIONS, num_games[t])
       THEN /\ Raise(t, "ValueError")
            /\ UNCHANGED <<simulated_reb, draws>>
       ELSE /\ \E M \in IndexMatrices(NUM_SIMULATIONS, num_games[t], Len(REB)) :
                  simulated_reb' =
                      [simulated_reb EXCEPT ![t] = RowAverages(REB, M, num_games[t])]
            /\ draws' = [draws EXCEPT ![t] = @ + 1]
            /\ pc' = [pc EXCEPT ![t] = "lebron_output"]
            /\ UNCHANGED response
    /\ REB' = SourceAfterChoice(REB)
    /\ UNCHANGED <<goals, assists, PTS, AST, num_games, salah_locals,
                   simulated_pts, simulated_ast, prior, callback>>

\* The rest of update_lebron_output: the three figures and the summary text
\* with the three means.
lebron_output(t) ==
    /\ pc[t] = "lebron_output"
    /\ response' = [response EXCEPT ![t] =
          [kind         |-> "ok",
           points_fig   |-> create_histogram(Nums(simulated_pts[t]), num_games[t]),
           assists_fig  |-> create_histogram(Nums(simulated_ast[t]), num_games[t]),
           rebounds_fig |-> create_histogram(Nums(simulated_reb[t]), num_games[t]),
           summary_text |->
              [num_games |-> num_games[t],
               pts |-> RoundTo(Mean(Nums(simulated_pts[t]), num_games[t]), 100),
               ast |-> RoundTo(Mean(Nums(simulated_ast[t]), num_games[t]), 100),
               reb |-> RoundTo(Mean(Nums(simulated_reb[t]), num_games[t]), 100)]]]
    /\ pc' = [pc EXCEPT ![t] = "done"]
    /\ UNCHANGED <<series, num_games, salah_locals, lebron_locals, draws, prior, callback>>

-----------------------------------------------------------------------------
(* One server thread answering one request after another *)

GameCounts == -1..MaxGames

Next ==
    \/ \E g \in GameCounts : Request("t1", "update_salah_output", g)
    \/ \E g \in GameCounts : Request("t1", "update_lebron_output", g)
    \/ salah_goals("t1")
    \/ salah_assists("t1")
    \/ salah_output("t1")
    \/ lebron_pts("t1")
    \/ lebron_ast("t1")
    \/ lebron_reb("t1")
    \/ lebron_output("t1")

Spec == Init /\ [][Next]_vars

-----------------------------------------------------------------------------
(* Properties of one thread's requests *)

Range(a) == {a[i] : i \in DOMAIN a}
MinOf(a) == CHOOSE x \in Range(a) : \A y \in Range(a) : x <= y
MaxOf(a) == CHOOSE x \in Range(a) : \A y \in Range(a) : x >= y

RECURSIVE GSums(_, _)
\* Every value a sum of g elements of a can take
GSums(a, g) ==
    IF g <= 0 THEN {0} ELSE {x + v : x \in GSums(a, g - 1), v \in Range(a)}

SalahDone(t) == callback[t] = "update_salah_output" /\ pc[t] = "done"
LebronDone(t) == callback[t] = "update_lebron_output" /\ pc[t] = "done"

TotalsInRange(sim, a, g) ==
    \A s \in DOMAIN sim : g * MinOf(a) <= sim[s] /\ sim[s] <= g * MaxOf(a)

\* C1: for every game count G >= 1, every element of the goals and of the
\* assists totals lies within [G * min(series), G * max(series)].
C1_TotalsWithinBounds ==
    \A t \in Threads :
        num_games[t] >= 1 =>
            /\ TotalsInRange(goals_sim[t], goals, num_games[t])
            /\ TotalsInRange(assists_sim[t], assists, num_games[t])

\* A finished Salah request of MaxGames games whose first season hit the
\* largest possible goals total and the smallest possible assists total.
C1_Witness ==
    \E t \in Threads :
        /\ SalahDone(t) /\ num_games[t] = MaxGames
        /\ MinOf(goals) < MaxOf(goals)
        /\ goals_sim[t][1] = MaxGames * MaxOf(goals)
        /\ assists_sim[t][1] = MaxGames * MinOf(assists)

IsArrayOfSums(sim, a, g) ==
    /\ Len(sim) = NUM_SIMULATIONS
    /\ \A s \in DOMAIN sim : sim[s] \in GSums(a, g)
    /\ g = 1 => \A s \in DOMAIN sim : sim[s] \in Range(a)

\* C2: the simulation returns, for goals and for assists, an array of exactly
\* NUM_SIMULATIONS values, each the sum of exactly G values of the series;
\* with G = 1 every value is an element of the series.
C2_ArrayOfSums ==
    \A t \in Threads :
        /\ pc[t] \in {"salah_assists", "salah_output"} \/ SalahDone(t) =>
              IsArrayOfSums(goals_sim[t], goals, num_games[t])
        /\ pc[t] = "salah_output" \/ SalahDone(t) =>
              IsArrayOfSums(assists_sim[t], assists, num_games[t])

\* A finished one-game Salah request whose seasons drew different games.
C2_Witness ==
    \E t \in Threads :
        /\ SalahDone(t) /\ num_games[t] = 1
        /\ goals_sim[t][1] # goals_sim[t][2]
        /\ Len(assists_sim[t]) = NUM_SIMULATIONS

\* C3: in a finished Salah request, the goals total and the assists total of
\* every season are sums over one and the same G game indices.
C3_SharedIndexMatrix ==
    \A t \in Threads :
        SalahDone(t) /\ num_games[t] >= 1 =>
            \A s \in 1..NUM_SIMULATIONS :
                \E idx \in [1..num_games[t] -> 1..Len(goals)] :
                    /\ SumSeq(Take(goals, idx)) = goals_sim[t][s]
                    /\ SumSeq(Take(assists, idx)) = assists_sim[t][s]

NoArray(t) ==
    /\ goals_sim[t] = <<>> /\ assists_sim[t] = <<>>
    /\ simulated_pts[t] = <<>> /\ simulated_ast[t] = <<>> /\ simulated_reb[t] = <<>>

\* C5: a request with G < 1 performs no draw, produces no array, and ends in
\* the InvalidGameCount error.
C5_InvalidGameCountRejected ==
    \A t \in Threads :
        pc[t] # "idle" /\ num_games[t] < 1 =>
            /\ draws[t] = 0
            /\ NoArray(t)
            /\ Ended(t) =>
                  response[t] = [kind |-> "error", error |-> "InvalidGameCount"]

EmptySource(t) ==
    \/ callback[t] = "update_salah_output" /\ (goals = <<>> \/ assists = <<>>)
    \/ callback[t] = "update_lebron_output"
          /\ (PTS = <<>> \/ AST = <<>> \/ REB = <<>>)

\* C6: a request for G >= 1 games over an empty source series ends in the
\* EmptySourceArray error.
C6_EmptySourceArrayReported ==
    \A t \in Threads :
        Ended(t) /\ EmptySource(t) /\ num_games[t] >= 1 =>
            response[t] = [kind |-> "error", error |-> "EmptySourceArray"]

IsArrayOfAverages(sim, a, g) ==
    /\ Len(sim) = NUM_SIMULATIONS
    /\ \A s \in DOMAIN sim :
          /\ sim[s].d = g
          /\ sim[s].n \in GSums(a, g)
          /\ MinOf(a) * sim[s].d <= sim[s].n
          /\ sim[s].n <= MaxOf(a) * sim[s].d

\* C10: for G >= 1 every value monte_carlo_simulation_lebron returns is the
\* sum of G drawn values divided by G, and lies within
\* [min(series), max(series)].
C10_LebronPerGameAverages ==
    \A t \in Threads :
        LebronDone(t) /\ num_games[t] >= 1 =>
            /\ IsArrayOfAverages(simulated_pts[t], PTS, num_games[t])
            /\ IsArrayOfAverages(simulated_ast[t], AST, num_games[t])
            /\ IsArrayOfAverages(simulated_reb[t], REB, num_games[t])

\* A finished LeBron request of MaxGames games whose first season's points
\* total exceeds the best single game.
C10_Witness ==
    \E t \in Threads :
        /\ LebronDone(t) /\ num_games[t] = MaxGames
        /\ simulated_pts[t][1].n > MaxOf(PTS)
        /\ simulated_pts[t][1].n < MaxGames * MaxOf(PTS)

-----------------------------------------------------------------------------
(* Two server threads answering Salah requests *)

\* Flask serves each request in its own thread, so two invocations of
\* update_salah_output may interleave at every numpy call.
NextConcurrent ==
    \E t \in Threads :
        \/ \E g \in 1..MaxGames : Request(t, "update_salah_output", g)
        \/ salah_goals(t)
        \/ salah_assists(t)
        \/ salah_output(t)

\* The series of the two-thread specification
ConcurrentDatasets == {d \in Datasets : d.goals = <<0, 1>>}

InitConcurrent == Loaded(ConcurrentDatasets)

SpecConcurrent == InitConcurrent /\ [][NextConcurrent]_vars

SameKey(t, u) == callback[t] = callback[u] /\ num_games[t] = num_games[u]

\* C4: when a Salah request is issued after another with the same game count
\* has finished, it returns the same totals and draws nothing itself.
C4_SecondRequestReusesTotals ==
    \A t \in Threads : \A u \in prior[t] :
        SalahDone(t) /\ SalahDone(u) /\ SameKey(t, u) =>
            /\ goals_sim[t] = goals_sim[u]
            /\ assists_sim[t] = assists_sim[u]
            /\ draws[t] = 0

\* Neither request had finished when the other was issued.
Overlapping(t, u) == t # u /\ u \notin prior[t] /\ t \notin prior[u]

\* C9: of two overlapping Salah requests with the same game count, at most
\* one runs its own draws to completion.
C9_AtMostOneComputationPerKey ==
    \A t, u \in Threads :
        Overlapping(t, u) /\ SalahDone(t) /\ SalahDone(u) /\ SameKey(t, u) =>
            draws[t] = 0 \/ draws[u] = 0

-----------------------------------------------------------------------------
(* The summary of a full-size run *)

\* The series of the summary specification
SummaryDatasets ==
    { [goals |-> <<0, 1>>, assists |-> <<1, 1>>,
       PTS   |-> <<2, 3>>, AST     |-> <<1, 1>>, REB |-> <<4, 4>>],
      [goals |-> <<3, 1>>, assists |-> <<0, 0>>,
       PTS   |-> <<2, 3>>, AST     |-> <<1, 1>>, REB |-> <<4, 4>>] }

InitSummary == Loaded(SummaryDatasets)

\* The totals with one more season.  mean and percentile do not depend on
\* the order of the array, so the seasons are kept in ascending order and
\* one state stands for every order in which they can be drawn.
WithSeason(sim, total) ==
    LET k == Cardinality({i \in DOMAIN sim : sim[i] <= total})
    IN  SubSeq(sim, 1, k) \o <<total>> \o SubSeq(sim, k + 1, Len(sim))

\* rng.choice(goals, size=size).sum(axis=1), one row of the matrix at a time
salah_goals_row(t) ==
    /\ pc[t] = "salah_goals"
    /\ ~ChoiceFails(goals, SummarySimulations, num_games[t])
    /\ \E idx \in [1..num_games[t] -> 1..Len(goals)] :
          goals_sim' =
              [goals_sim EXCEPT ![t] = WithSeason(@, SumSeq(Take(goals, idx)))]
    /\ IF Len(goals_sim[t]) + 1 = SummarySimulations
       THEN /\ pc' = [pc EXCEPT ![t] = "salah_assists"]
            /\ draws' = [draws EXCEPT ![t] = @ + 1]
       ELSE UNCHANGED <<pc, draws>>
    /\ goals' = SourceAfterChoice(goals)
    /\ UNCHANGED <<assists, PTS, REB, AST, num_games, assists_sim, lebron_locals,
                   prior, callback, response>>

\* rng.choice(assists, size=size).sum(axis=1), one row of the matrix at a time
salah_assists_row(t) ==
    /\ pc[t] = "salah_assists"
    /\ ~ChoiceFails(assists, SummarySimulations, num_games[t])
    /\ \E idx \in [1..num_games[t] -> 1..Len(assists)] :
          assists_sim' =
              [assists_sim EXCEPT ![t] = WithSeason(@, SumSeq(Take(assists, idx)))]
    /\ IF Len(assists_sim[t]) + 1 = SummarySimulations
       THEN /\ pc' = [pc EXCEPT ![t] = "salah_output"]
            /\ draws' = [draws EXCEPT ![t] = @ + 1]
       ELSE UNCHANGED <<pc, draws>>
    /\ assists' = SourceAfterChoice(assists)
    /\ UNCHANGED <<goals, PTS, REB, AST, num_games, goals_sim, lebron_locals,
                   prior, callback, response>>

NextSummary ==
    \/ \E g \in 1..MaxGames : Request("t1", "update_salah_output", g)
    \/ salah_goals_row("t1")
    \/ salah_assists_row("t1")
    \/ salah_output("t1")

SpecSummary == InitSummary /\ [][NextSummary]_vars

\* a <= b for fractions with positive denominators
LeqQ(a, b) == a.n * b.d <= b.n * a.d

Whole(x) == [n |-> x, d |-> 1]

\* C7 as stated: the mean of the goals totals lies between their 5th and
\* their 95th percentile.
C7_MeanBetweenPercentiles ==
    \A t \in Threads :
        SalahDone(t) =>
            /\ LeqQ(response[t].goals_5th, response[t].goals_mean)
            /\ LeqQ(response[t].goals_mean, response[t].goals_95th)

\* C7 as amended: the 5th percentile is at most the 95th, and the mean and
\* both percentiles lie between the smallest and the largest total.
C7_SummaryWithinRange ==
    \A t \in Threads :
        SalahDone(t) =>
            LET r  == response[t]
                lo == Whole(MinOf(goals_sim[t]))
                hi == Whole(MaxOf(goals_sim[t]))
            IN  /\ LeqQ(r.goals_5th, r.goals_95th)
                /\ LeqQ(lo, r.goals_5th) /\ LeqQ(r.goals_95th, hi)
                /\ LeqQ(lo, r.goals_mean) /\ LeqQ(r.goals_mean, hi)
                /\ LeqQ(r.goals_fig.p5, r.goals_fig.p95)
                /\ LeqQ(lo, r.goals_fig.mean) /\ LeqQ(r.goals_fig.mean, hi)

\* A finished request of SummarySimulations seasons whose mean lies above
\* its 95th percentile.
C7_Witness ==
    \E t \in Threads :
        /\ SalahDone(t)
        /\ Len(goals_sim[t]) = SummarySimulations
        /\ ~LeqQ(response[t].goals_mean, response[t].goals_95th)

====
